---- MODULE Spec2Model ----
(***************************************************************************)
(* A model of gensi's fetch-and-extract core:                              *)
(*   - HttpCache / CachedFetcher / Fetcher  (core/cache.py,                *)
(*     core/cached_fetcher.py, core/fetcher.py)                            *)
(*   - GensiProcessor.process and its helpers (core/processor.py)          *)
(* Two specifications are given.  SpecFetch drives one CachedFetcher with  *)
(* arbitrary fetch / fetch_binary calls.  Spec is one run of               *)
(* GensiProcessor.process, the article tasks of asyncio.gather being       *)
(* interleaved at their await points.                                      *)
(***************************************************************************)
EXTENDS Integers, Sequences, FiniteSets, TLC

\* ------------------------------------------------------------------ bounds
\* Largest number of [[index]] sections of a recipe.
MaxIdx == 2
\* Largest number of article references the indices of a run resolve to,
\* all indices together.
MaxArticles == 3
\* Largest max_parallel handed to GensiProcessor.
MaxParallel == 2

\* ------------------------------------------------------------------- URLs
CoverUrl == [role |-> "cover", i |-> 0, j |-> 0]
CoverImgUrl == [role |-> "coverimg", i |-> 0, j |-> 0]
IndexUrl(i) == [role |-> "index", i |-> i, j |-> 0]
ArtUrl(i, j) == [role |-> "article", i |-> i, j |-> j]
\* The URL a request is redirected to, when the server redirects it.
Moved(u) == [role |-> "moved", i |-> u.i, j |-> u.j]

\* The URLs the calls of SpecFetch draw from.
FetchUrls == {ArtUrl(1, 1), IndexUrl(1)}
\* Response bodies: the code points of a text, the bytes of a binary
\* body.  97 is 'a' (one byte in UTF-8), 233 is e-acute (two bytes in
\* UTF-8; the single byte 233 is not UTF-8).
Contents == {<<97>>, <<233>>}

FetchContext == {"cover", "index", "article", "image"}
ContentType == {"text", "binary"}

\* ------------------------------------------------------------- HttpCache
NoEntry == [none |-> TRUE]

\* A str and a bytes value with the same characters are different values.
Text(c) == [text |-> c]
Bytes(c) == [bytes |-> c]
NoContent == [none |-> TRUE]

\* str.encode('utf-8'): one byte for a code point below 128, two bytes
\* for a code point below 2048.
RECURSIVE Utf8Bytes(_)
Utf8Bytes(cps) ==
    IF cps = << >> THEN << >>
    ELSE LET cp == Head(cps)
         IN  (IF cp < 128 THEN <<cp>>
              ELSE <<192 + (cp \div 64), 128 + (cp % 64)>>)
                  \o Utf8Bytes(Tail(cps))
Utf8Encode(s) == Bytes(Utf8Bytes(s.text))

\* bytes.decode('utf-8'): UnicodeDecodeError on a byte sequence that is
\* not UTF-8 (-1 marks the place).
DecodeError == [error |-> "UnicodeDecodeError"]
RECURSIVE Utf8Points(_)
Utf8Points(bs) ==
    IF bs = << >> THEN << >>
    ELSE IF bs[1] < 128 THEN <<bs[1]>> \o Utf8Points(Tail(bs))
    ELSE IF bs[1] \in 194..223 /\ Len(bs) >= 2 /\ bs[2] \in 128..191
    THEN <<(bs[1] - 192) * 64 + (bs[2] - 128)>> \o Utf8Points(Tail(Tail(bs)))
    ELSE <<-1>>
Utf8Decode(b) ==
    LET cps == Utf8Points(b.bytes)
    IN  IF \E k \in DOMAIN cps : cps[k] = -1 THEN DecodeError ELSE Text(cps)

MakeCacheKeyUrlOnly(url, content_type) == <<url, "any">>

\* sha256(url) + "_" + content_type: one key per (url, content type).
MakeCacheKey(url, content_type) == <<url, content_type>>

\* HttpCache.get: the entry, or None when the key is absent.
CacheGet(c, url, content_type) ==
    LET key == MakeCacheKey(url, content_type)
    IN  IF key \in DOMAIN c THEN c[key] ELSE NoEntry

CacheSetOriginalUrl(c, url, content, final_url, content_type) ==
    LET key == MakeCacheKey(url, content_type)
        entry == [content |-> content, final_url |-> url, original_url |-> url]
    IN  [k \in (DOMAIN c) \cup {key} |-> IF k = key THEN entry ELSE c[k]]

\* HttpCache.set: stores {content, final_url, original_url}.
CacheSet(c, url, content, final_url, content_type) ==
    LET key == MakeCacheKey(url, content_type)
        entry == [content |-> content, final_url |-> final_url, original_url |-> url]
    IN  [k \in (DOMAIN c) \cup {key} |-> IF k = key THEN entry ELSE c[k]]

EmptyCache == << >>

\* HttpCache.get with its try/except: when diskcache raises, None.
CacheGetTry(c, url, content_type, disk_ok) ==
    IF disk_ok THEN CacheGet(c, url, content_type) ELSE NoEntry

CacheSetTryHalfWritten(c, url, content, final_url, content_type, disk_ok) ==
    IF disk_ok THEN CacheSet(c, url, content, final_url, content_type)
    ELSE CacheSet(c, url, Bytes(<< >>), final_url, content_type)

\* HttpCache.set with its try/except: when diskcache raises, nothing is
\* stored and False is returned.
CacheSetTry(c, url, content, final_url, content_type, disk_ok) ==
    IF disk_ok THEN CacheSet(c, url, content, final_url, content_type) ELSE c

\* ------------------------------------------------------------ the network
NetFail == [ok |-> FALSE]
\* What a server can answer for url: a body and the URL after redirects
\* (one body served at the URL itself, the other after a redirect).
NetResponses(url) ==
    {[ok |-> TRUE, content |-> c,
      final_url |-> IF c = <<97>> THEN url ELSE Moved(url)] : c \in Contents}
NetOutcomes(url) == {NetFail} \cup NetResponses(url)
\* The outcomes a run of the processor draws from: the server fails, or
\* answers with a body without redirecting.
RunOutcomes(url) == {NetFail, [ok |-> TRUE, content |-> <<97>>, final_url |-> url]}

\* Fetcher.fetch returns response.text, Fetcher.fetch_binary returns
\* response.content.
FetcherBody(content_type, c) ==
    IF content_type = "text" THEN Text(c) ELSE Bytes(c)

\* ---------------------------------------------------------- CachedFetcher
ShouldCacheNoIndexCheck(enabled, context) == enabled
ShouldCacheAlways(enabled, context) == context # "index"

\* CachedFetcher._should_cache
ShouldCache(enabled, context) ==
    IF ~enabled THEN FALSE
    ELSE IF context = "index" THEN FALSE
    ELSE TRUE

\* The body as the cache stores it / as the caller gets it back.
ToStored(content_type, content) ==
    IF content_type = "text" THEN Utf8Encode(content) ELSE content
FromStoredRaw(content_type, stored) == stored

\* (fetch decodes the stored bytes, fetch_binary returns them)
FromStored(content_type, stored) ==
    IF content_type = "text" THEN Utf8Decode(stored) ELSE stored

\* CachedFetcher.fetch (content_type = "text") and fetch_binary
\* (content_type = "binary"), on an entered fetcher.  net is what the
\* network would answer; get_ok and set_ok say whether diskcache works
\* when HttpCache.get and HttpCache.set use it.  The result names the new
\* cache, what the caller gets, and what the call did (cache read, network
\* request, cache write).  A hit whose stored bytes do not decode raises.
CachedFetchTry(c, enabled, url, content_type, context, net, get_ok, set_ok) ==
    LET sc == ShouldCache(enabled, context)
        cached == IF sc THEN CacheGetTry(c, url, content_type, get_ok)
                  ELSE NoEntry
        call == [url |-> url, kind |-> content_type, context |-> context,
                 entered |-> TRUE, read |-> sc,
                 present |-> MakeCacheKey(url, content_type) \in DOMAIN c]
    IN  IF sc /\ cached # NoEntry
        THEN IF FromStored(content_type, cached.content) = DecodeError
             THEN [cache |-> c,
                   last |-> call @@ [net |-> FALSE, wrote |-> FALSE,
                                     ok |-> FALSE, content |-> NoContent,
                                     final_url |-> url]]
             ELSE [cache |-> c,
                   last |-> call @@ [net |-> FALSE, wrote |-> FALSE,
                                     ok |-> TRUE,
                                     content |-> FromStored(content_type,
                                                            cached.content),
                                     final_url |-> cached.final_url]]
        ELSE IF ~net.ok
        THEN [cache |-> c,
              last |-> call @@ [net |-> TRUE, wrote |-> FALSE, ok |-> FALSE,
                                content |-> NoContent, final_url |-> url]]
        ELSE [cache |-> IF sc
                        THEN CacheSetTry(c, url,
                                         ToStored(content_type,
                                                  FetcherBody(content_type,
                                                              net.content)),
                                         net.final_url, content_type, set_ok)
                        ELSE c,
              last |-> call @@ [net |-> TRUE, wrote |-> sc, ok |-> TRUE,
                                content |-> FetcherBody(content_type, net.content),
                                final_url |-> net.final_url]]

CachedFetchStoresFailure(c, enabled, url, content_type, context, net) ==
    LET r == CachedFetchTry(c, enabled, url, content_type, context, net,
                            TRUE, TRUE)
    IN  IF r.last.read /\ r.last.net /\ ~r.last.ok
        THEN [cache |-> CacheSet(c, url, Bytes(<< >>), url, content_type),
              last |-> r.last]
        ELSE r

\* The same with a working diskcache.
CachedFetch(c, enabled, url, content_type, context, net) ==
    CachedFetchTry(c, enabled, url, content_type, context, net, TRUE, TRUE)

\* fetch / fetch_binary on a CachedFetcher that was never entered:
\* RuntimeError before the cache is looked at.
NotEntered(url, content_type, context) ==
    [url |-> url, kind |-> content_type, context |-> context,
     entered |-> FALSE, read |-> FALSE, present |-> FALSE,
     net |-> FALSE, wrote |-> FALSE, ok |-> FALSE,
     content |-> NoContent, final_url |-> url]

\* No call made yet.
NoCall ==
    NotEntered(CoverUrl, "text", "none") @@ [repeat |-> FALSE, before |-> NoEntry]

\* ------------------------------------------------------------------ state
VARIABLES
    cache_enabled,   \* the cache_enabled argument
    cache,           \* the disk cache: key -> entry
    last,            \* SpecFetch, SpecStore: the latest call; SpecExtract:
                     \* the Extractor's document and the result dict
    served,          \* history, key -> what the call that stored the entry
                     \* of the key held (SpecFetch: what the fetch gave its
                     \* caller; SpecStore: the arguments of HttpCache.set)
    session,         \* the fetcher's network session: "none", "open", "closed"
    cfg,             \* the recipe and the arguments of the run
    pc,              \* where GensiProcessor.process stands
    events,          \* the ProcessingProgress events reported so far
    cover_data,      \* self.cover_data is set
    sections_data,   \* sections_data of process()
    total_articles,  \* total_articles of process()
    current_article, \* current_article of process()
    sec,             \* the index / section the loops of process() stand at
    task,            \* the state of each article task of the current gather
    results,         \* the results of the current gather, by position
    semaphore,       \* the value of the current asyncio.Semaphore
    packaged,        \* what _build_epub was called with
    requested        \* history: the URLs fetched with context "article"

fetchVars == <<cache_enabled, cache, last, served, session>>
runVars == <<cfg, pc, events, cover_data, sections_data, total_articles,
             current_article, sec, task, results, semaphore, packaged,
             requested>>
vars == <<cache_enabled, cache, last, served, session, cfg, pc, events, cover_data,
          sections_data, total_articles, current_article, sec, task, results,
          semaphore, packaged, requested>>

NotPackaged == [called |-> FALSE, sections |-> << >>]
NoCfg == [none |-> TRUE]

\* No run of process() is going on.
RunIdle ==
    /\ cfg = NoCfg
    /\ pc = "idle"
    /\ events = << >>
    /\ cover_data = FALSE
    /\ sections_data = << >>
    /\ total_articles = 0
    /\ current_article = 0
    /\ sec = 0
    /\ task = << >>
    /\ results = << >>
    /\ semaphore = 0
    /\ packaged = NotPackaged
    /\ requested = {}

\* ------------------------------------------------- SpecFetch: one fetcher
InitFetch ==
    /\ cache_enabled \in BOOLEAN
    /\ cache = EmptyCache
    /\ last = NoCall
    /\ served = << >>
    /\ session = "none"
    /\ RunIdle

\* CachedFetcher.__aenter__ (of a new CachedFetcher on the same cache
\* directory, when the previous one was exited)
FEnter ==
    /\ session # "open"
    /\ session' = "open"
    /\ UNCHANGED <<cache_enabled, cache, last, served>>
    /\ UNCHANGED runVars

\* CachedFetcher.__aexit__ -> Fetcher.__aexit__: closes the session
FExit ==
    /\ session = "open"
    /\ session' = "closed"
    /\ UNCHANGED <<cache_enabled, cache, last, served>>
    /\ UNCHANGED runVars

\* The place of a URL and kind in the history.
Slot(url, content_type) == [url |-> url, kind |-> content_type]
\* The history without the slots whose entry is stored under key.
Forget(key) ==
    [h \in {g \in DOMAIN served : MakeCacheKey(g.url, g.kind) # key} |->
        served[h]]

\* What a call gave its caller.
Given(call) == [content |-> call.content, final_url |-> call.final_url]

\* One call of fetch or fetch_binary in the state of the fetcher: a
\* RuntimeError when it was never entered, a failing request when its
\* session is closed, else net.
\* last also notes whether the call repeats the call before it (the same
\* URL, content type and context), and what the fetch that stored the
\* entry of its key had given its caller (NoEntry when there was none).
FetchCall(url, content_type, context, net) ==
    LET key == Slot(url, content_type)
        note == [repeat |-> /\ last.entered
                            /\ last.url = url
                            /\ last.kind = content_type
                            /\ last.context = context,
                 before |-> IF key \in DOMAIN served THEN served[key]
                            ELSE NoEntry]
    IN  IF session = "none"
        THEN /\ last' = NotEntered(url, content_type, context) @@ note
             /\ cache' = cache
             /\ served' = served
        ELSE LET r == CachedFetch(cache, cache_enabled, url, content_type,
                                  context,
                                  IF session = "open" THEN net ELSE NetFail)
             IN  /\ last' = r.last @@ note
                 /\ cache' = r.cache
                 /\ served' = IF r.last.wrote
                               THEN [k \in (DOMAIN served) \cup {key} |->
                                        IF k = key THEN Given(r.last)
                                        ELSE served[k]]
                               ELSE served

\* CachedFetcher.fetch(url, context=context)
FFetch ==
    \E url \in FetchUrls, context \in FetchContext :
        \E net \in NetOutcomes(url) :
            /\ FetchCall(url, "text", context, net)
            /\ UNCHANGED <<cache_enabled, session>>
            /\ UNCHANGED runVars

\* CachedFetcher.fetch_binary(url, context=context)
FFetchBinary ==
    \E url \in FetchUrls, context \in FetchContext :
        \E net \in NetOutcomes(url) :
            /\ FetchCall(url, "binary", context, net)
            /\ UNCHANGED <<cache_enabled, session>>
            /\ UNCHANGED runVars

\* HttpCache.clear
FClear ==
    /\ cache # EmptyCache
    /\ cache' = EmptyCache
    /\ served' = << >>
    /\ UNCHANGED <<cache_enabled, last, session>>
    /\ UNCHANGED runVars

\* An entry reaches its TTL: diskcache drops it.
FExpire ==
    \E key \in DOMAIN cache :
        /\ cache' = [k \in (DOMAIN cache) \ {key} |-> cache[k]]
        /\ served' = Forget(key)
        /\ UNCHANGED <<cache_enabled, last, session>>
        /\ UNCHANGED runVars

NextFetch == FEnter \/ FExit \/ FFetch \/ FFetchBinary \/ FClear \/ FExpire

SpecFetch == InitFetch /\ [][NextFetch]_vars

\* ------------------------------- SpecStore: HttpCache with a failing disk
\* One HttpCache, used directly (set, get) and through an entered
\* CachedFetcher, diskcache raising in any of its calls or working.

\* The URL the calls of SpecStore draw from.
StoreUrls == {ArtUrl(1, 1)}
\* The contexts the fetches of SpecStore draw from.
StoreContexts == {"index", "article"}
\* The payloads handed to HttpCache.set directly.
Payloads == {Bytes(c) : c \in Contents}

InitStore ==
    /\ cache_enabled \in BOOLEAN
    /\ cache = EmptyCache
    /\ last = [op |-> "none", tick |-> FALSE]
    /\ served = << >>
    /\ session = "open"
    /\ RunIdle

\* The history after a call stored content and final_url for slot key.
Stored(key, content, final_url) ==
    [k \in (DOMAIN served) \cup {key} |->
        IF k = key THEN [content |-> content, final_url |-> final_url]
        ELSE served[k]]
\* The history for slot key before a call.
Before(key) == IF key \in DOMAIN served THEN served[key] ELSE NoEntry

\* HttpCache.set(url, content, final_url, content_type)
HSet ==
    \E url \in StoreUrls, content_type \in ContentType, content \in Payloads,
       redirected \in BOOLEAN, set_ok \in BOOLEAN :
      LET final_url == IF redirected THEN Moved(url) ELSE url IN
        /\ cache' = CacheSetTry(cache, url, content, final_url, content_type,
                                set_ok)
        /\ served' = IF set_ok
                      THEN Stored(Slot(url, content_type), content, final_url)
                      ELSE served
        /\ last' = [op |-> "set", tick |-> ~last.tick, url |-> url,
                    kind |-> content_type, content |-> content,
                    final_url |-> final_url, ok |-> set_ok]
        /\ UNCHANGED <<cache_enabled, session>>
        /\ UNCHANGED runVars

\* HttpCache.get(url, content_type)
HGet ==
    \E url \in StoreUrls, content_type \in ContentType, get_ok \in BOOLEAN :
        /\ last' = [op |-> "get", tick |-> ~last.tick, url |-> url,
                    kind |-> content_type, get_ok |-> get_ok,
                    result |-> CacheGetTry(cache, url, content_type, get_ok),
                    before |-> Before(Slot(url, content_type))]
        /\ UNCHANGED <<cache_enabled, cache, served, session>>
        /\ UNCHANGED runVars

\* CachedFetcher.fetch / fetch_binary (url, context=context), diskcache
\* working or raising in cache.get and in cache.set.
SFetch ==
    \E url \in StoreUrls, content_type \in ContentType,
       context \in StoreContexts, get_ok \in BOOLEAN, set_ok \in BOOLEAN :
        \E net \in NetOutcomes(url) :
            LET r == CachedFetchTry(cache, cache_enabled, url, content_type,
                                    context, net, get_ok, set_ok)
                key == Slot(url, content_type)
            IN  /\ cache' = r.cache
                /\ served' = IF r.last.wrote /\ set_ok
                              THEN Stored(key,
                                          ToStored(content_type, r.last.content),
                                          r.last.final_url)
                              ELSE served
                /\ last' = r.last @@ [op |-> "fetch", tick |-> ~last.tick,
                                      get_ok |-> get_ok, set_ok |-> set_ok,
                                      answer |-> net, before |-> Before(key)]
                /\ UNCHANGED <<cache_enabled, session>>
                /\ UNCHANGED runVars

NextStore == HSet \/ HGet \/ SFetch \/ FClear \/ FExpire

SpecStore == InitStore /\ [][NextStore]_vars

\* ------------------------------- SpecIndex: GensiProcessor._process_index
\* One call of _process_index(fetcher, index_config) on an entered fetcher.
\* results is the list of articles the call builds and returns; sec is
\* the place of the url_transform loop in it.

\* Largest number of links an index holds.
MaxFound == 2

\* The index sections _process_index is called with: the type (checked by
\* GensiParser) and the kind of [index.url_transform], if any.
IndexConfigs ==
    [type : {"html", "json", "rss", "bluesky"},
     url_transform : {"none", "pattern", "python"}]

\* The URLs an index links to: one that the pattern of url_transform
\* matches and one that it does not match.
FoundUrls == {[role |-> "link", matches |-> m] : m \in BOOLEAN}

\* An article as the extraction yields it.  'found' is not a key of the
\* dict: it notes the URL the extraction found.
Found(u) == [url |-> u, found |-> u]
\* The lists of articles an extraction can yield.
FoundLists == UNION {[1..n -> {Found(u) : u \in FoundUrls}] : n \in 0..MaxFound}

\* Extractor.transform_url.  script is what the script of a python
\* transform returns: "str" or something else (TypeError).
TypeError == [error |-> "TypeError"]
TransformUrl(url, transform, script) ==
    IF transform = "python"
    THEN IF script = "str" THEN [role |-> "scripted", of |-> url]
         ELSE TypeError
    ELSE IF ~url.matches THEN url
    ELSE [role |-> "templated", of |-> url]

\* Extractor.extract_index_articles (html and json indices), the lists it
\* can return.
ExtractIndexArticles == FoundLists
\* parse_rss_feed, the lists it can return: the index's url_transform is
\* not looked at.
ParseRssFeed == FoundLists
\* parse_bluesky_feed (imported by processor.py, not in extractor.py), the
\* lists it can return.
ParseBlueskyFeed == FoundLists

InitIndex ==
    /\ cache_enabled \in BOOLEAN
    /\ cache = EmptyCache
    /\ last = NoCall
    /\ served = << >>
    /\ session = "open"
    /\ cfg \in IndexConfigs
    /\ pc = "ix_call"
    /\ events = << >>
    /\ cover_data = FALSE
    /\ sections_data = << >>
    /\ total_articles = 0
    /\ current_article = 0
    /\ sec = 0
    /\ task = << >>
    /\ results = << >>
    /\ semaphore = 0
    /\ packaged = NotPackaged
    /\ requested = {}

\* What the actions of SpecIndex leave alone.
IndexFrame ==
    UNCHANGED <<cache_enabled, last, served, session, cfg, events, cover_data,
                sections_data, total_articles, current_article, task,
                semaphore, packaged, requested>>

\* _process_index: fetcher.fetch(index_url, context="index"), in each of
\* the four branches.
IxFetch ==
    /\ pc = "ix_call"
    /\ \E net \in RunOutcomes(IndexUrl(1)) :
           /\ cache' = CachedFetch(cache, cache_enabled, IndexUrl(1), "text",
                                   "index", net).cache
           /\ pc' = IF CachedFetch(cache, cache_enabled, IndexUrl(1), "text",
                                   "index", net).last.ok
                    THEN "ix_fetched" ELSE "ix_raised"
    /\ UNCHANGED <<sec, results>>
    /\ IndexFrame

\* _process_index: the extraction of the branch of the index's type
\* raises or returns its articles; the html and json branches go on to
\* the url_transform loop when the index has a url_transform, the rss and
\* bluesky branches return.
IxExtract ==
    /\ pc = "ix_fetched"
    /\ \/ pc' = "ix_raised" /\ UNCHANGED <<sec, results>>
       \/ \E articles \in (CASE cfg.type \in {"html", "json"} -> ExtractIndexArticles
                             [] cfg.type = "rss" -> ParseRssFeed
                             [] cfg.type = "bluesky" -> ParseBlueskyFeed) :
              /\ results' = articles
              /\ IF cfg.type \in {"html", "json"} /\ cfg.url_transform # "none"
                       /\ articles # << >>
                 THEN pc' = "ix_transform" /\ sec' = 1
                 ELSE pc' = "ix_returned" /\ sec' = sec
    /\ cache' = cache
    /\ IndexFrame

\* _process_index, lines 290-296 and 307-313, one turn of the loop:
\* article['url'] = extractor.transform_url(article['url'], ...).
IxTransform ==
    /\ pc = "ix_transform"
    /\ \E script \in {"str", "other"} :
           LET url == TransformUrl(results[sec].url, cfg.url_transform, script)
           IN  IF url = TypeError
               THEN pc' = "ix_raised" /\ UNCHANGED <<sec, results>>
               ELSE /\ results' = [results EXCEPT ![sec].url = url]
                    /\ IF sec < Len(results)
                       THEN pc' = pc /\ sec' = sec + 1
                       ELSE pc' = "ix_returned" /\ sec' = sec
    /\ cache' = cache
    /\ IndexFrame

NextIndex == IxFetch \/ IxExtract \/ IxTransform

SpecIndex == InitIndex /\ [][NextIndex]_vars

\* ----------------------- SpecExtract: Extractor.extract_article_content
\* One Extractor(final_url, content, content_type, config) and one call of
\* extract_article_content(config, python_executor).  The page has the
\* element the content selector is meant for ("article", with a paragraph
\* "para" in it), a block "lead" that holds the title, author and date
\* nodes the metadata selectors are meant for, inside "article" or beside
\* it, and with or without metadata in its head.

Fields == {"title", "author", "date"}
None == <<"None">>
\* The text of the node the selector of field f finds in "lead".
NodeText(f) == <<"text", f>>
\* What extract_metadata_fallback finds for field f in the head.
HeadMeta(f) == <<"meta", f>>
\* What a json_path finds for field f.
JsonValue(f) == <<"json", f>>

\* The [article] sections GensiParser accepts, with the page they are
\* used on.
ArticleConfigs ==
    {c \in [response_type : {"html", "json"},
            json_path : {"none", "str", "dict"},
            json_keys : {{}, {"title"}},      \* metadata keys of a json_path dict
            python : BOOLEAN,                 \* 'python' in config
            executor : BOOLEAN,               \* python_executor is given
            content : {"none", "match", "nomatch"},  \* the content selector
            remove : BOOLEAN,                 \* remove lists the selector of "lead"
            selectors : SUBSET Fields,        \* the metadata selectors set
            lead_at : {"in_content", "outside"},
            head_meta : BOOLEAN] :
        /\ c.response_type = "html" => c.json_path = "none"
        /\ c.json_path # "dict" => c.json_keys = {}
        /\ (c.response_type = "json" /\ ~c.python) => c.json_path # "none"
        /\ (~c.python /\ c.json_path = "none") => c.content # "none"
        /\ c.selectors \in {{}, {"title"}, Fields}}

\* html.fromstring of the page: every node is attached.
Parsed == [parsed |-> TRUE, nodes |-> {"article", "para", "lead"}]
NotParsed == [parsed |-> FALSE, nodes |-> {}]

\* Extractor.__init__: the document is parsed from the HTML, or from the
\* HTML a json_path string names; else there is none.
InitialDocument(c) ==
    IF c.response_type = "html" \/ c.json_path = "str" THEN Parsed
    ELSE NotParsed

NoFields == [f \in Fields |-> None]
EmptyResult == [content |-> None] @@ NoFields

\* extract_metadata_fallback(document, url), field f: the head's metadata;
\* for the title, else the first h1 (the title node in "lead", when still
\* attached).  On no document every lookup fails and leaves None.
Fallback(c, doc, f) ==
    IF ~doc.parsed THEN None
    ELSE IF c.head_meta THEN HeadMeta(f)
    ELSE IF f = "title" /\ "lead" \in doc.nodes THEN NodeText(f)
    ELSE None

\* "Use fallback for missing metadata"
WithFallback(c, doc, result) ==
    [k \in DOMAIN result |->
        IF k \in Fields /\ result[k] = None THEN Fallback(c, doc, k)
        ELSE result[k]]

\* etree.tostring of an element: the nodes attached below it.
Serialized(c, doc, elem) ==
    IF elem = "document" \/ c.lead_at = "in_content"
    THEN [nodes |-> doc.nodes \ {"article"}]
    ELSE [nodes |-> doc.nodes \ {"article", "lead"}]

\* elem.getparent().remove(elem) for every match of the remove selector
\* below root: the block "lead", when it is below root.
Removed(c, doc, root) ==
    IF c.remove /\ (root = "document" \/ c.lead_at = "in_content")
    THEN [doc EXCEPT !.nodes = @ \ {"lead"}]
    ELSE doc

\* self.document.cssselect(selector of field f): the node in "lead", when
\* attached.
Selected(c, doc, f) ==
    IF f \in c.selectors /\ "lead" \in doc.nodes THEN NodeText(f) ELSE None

InitExtract ==
    /\ cache_enabled = TRUE
    /\ cache = EmptyCache
    /\ served = << >>
    /\ session = "none"
    /\ cfg \in ArticleConfigs
    /\ last = [doc |-> InitialDocument(cfg), result |-> EmptyResult,
               strategy |-> "none"]
    /\ pc = "x_call"
    /\ events = << >>
    /\ cover_data = FALSE
    /\ sections_data = << >>
    /\ total_articles = 0
    /\ current_article = 0
    /\ sec = 0
    /\ task = << >>
    /\ results = << >>
    /\ semaphore = 0
    /\ packaged = NotPackaged
    /\ requested = {}

\* What the actions of SpecExtract leave alone.
ExtractFrame ==
    UNCHANGED <<cache_enabled, cache, served, session, cfg, events, cover_data,
                sections_data, total_articles, current_article, sec, task,
                results, semaphore, packaged, requested>>

\* The call returns result / raises, strategy being the branch it is in.
XReturn(doc, result, strategy) ==
    /\ last' = [doc |-> doc, result |-> result, strategy |-> strategy]
    /\ pc' = "x_returned"
XRaise(strategy) ==
    /\ last' = [last EXCEPT !.strategy = strategy]
    /\ pc' = "x_raised"

\* extract_article_content, lines 217-276: "Handle JSON response type".
\* A json_path string re-parses the document and goes on; a json_path
\* dict extracts content and metadata, applies the remove selectors to
\* the document, fills the missing metadata and returns.
XJson ==
    /\ pc = "x_call"
    /\ IF cfg.response_type = "json" /\ cfg.json_path = "str"
       THEN \/ XRaise("json_path")
            \/ /\ last' = [last EXCEPT !.doc = Parsed]
               /\ pc' = "x_python"
       ELSE IF cfg.response_type = "json" /\ cfg.json_path = "dict"
       THEN \/ XRaise("json_path")
            \/ LET doc == Removed(cfg, Parsed, "document")
                   found == [content |-> Serialized(cfg, doc, "document")]
                            @@ [f \in Fields |->
                                   IF f \in cfg.json_keys THEN JsonValue(f)
                                   ELSE None]
               IN  XReturn(doc, WithFallback(cfg, doc, found), "json_path")
       ELSE /\ last' = last
            /\ pc' = "x_python"
    /\ ExtractFrame

\* extract_article_content, lines 278-309: "Check if using Python
\* override".  The script raises, or returns a str, a dict with 'content',
\* a dict without it (ValueError) or something else (TypeError).
XPython ==
    /\ pc = "x_python"
    /\ IF cfg.python /\ cfg.executor
       THEN \/ XRaise("script")
            \/ XReturn(last.doc,
                       [content |-> <<"script">>]
                           @@ [f \in Fields |-> Fallback(cfg, last.doc, f)],
                       "script")
            \/ \E given \in SUBSET Fields :
                   XReturn(last.doc,
                           WithFallback(cfg, last.doc,
                                        [content |-> <<"script">>]
                                            @@ [f \in Fields |->
                                                   IF f \in given
                                                   THEN <<"script", f>>
                                                   ELSE None]),
                           "script")
       ELSE /\ last' = last
            /\ pc' = "x_select"
    /\ ExtractFrame

\* extract_article_content, lines 311-323: "Simple mode", the content
\* selector: none (ValueError), no document or no match (Exception), or
\* the content element.
XSelect ==
    /\ pc = "x_select"
    /\ IF cfg.content = "match" /\ last.doc.parsed
       THEN /\ last' = [last EXCEPT !.strategy = "selector"]
            /\ pc' = "x_remove"
       ELSE XRaise("selector")
    /\ ExtractFrame

\* lines 325-329: "Remove unwanted elements", from the content element, in
\* the document.
XRemove ==
    /\ pc = "x_remove"
    /\ last' = [last EXCEPT !.doc = Removed(cfg, last.doc, "article")]
    /\ pc' = "x_serialize"
    /\ ExtractFrame

\* lines 331-337: "Extract HTML content": etree.tostring(content_elem).
XSerialize ==
    /\ pc = "x_serialize"
    /\ last' = [last EXCEPT
                   !.result.content = Serialized(cfg, last.doc, "article")]
    /\ pc' = "x_metadata"
    /\ ExtractFrame

\* lines 339-374: "Extract metadata using selectors or fallback", on the
\* document, and return.
XMetadata ==
    /\ pc = "x_metadata"
    /\ XReturn(last.doc,
               WithFallback(cfg, last.doc,
                            [content |-> last.result.content]
                                @@ [f \in Fields |->
                                       Selected(cfg, last.doc, f)]),
               "selector")
    /\ ExtractFrame

NextExtract == XJson \/ XPython \/ XSelect \/ XRemove \/ XSerialize \/ XMetadata

SpecExtract == InitExtract /\ [][NextExtract]_vars


\* ------------------------------------ SpecBluesky: parse_bluesky_feed
\* One call of parse_bluesky_feed(final_url, json_content, index_config,
\* python_executor).  processor.py imports it from extractor.py, which does
\* not define it: it is modelled from section 4.2 of the specification
\* ("Social feed") and from TestBlueskyFeedParsing.  results is the list
\* the call returns.

\* Largest number of entries of a feed.
MaxFeed == 3

\* Host names, label by label.
Domain == <<"republik", ".", "ch">>
Elsewhere == <<"example", ".", "com">>
Hosts == {Domain, <<"www", ".">> \o Domain, <<"not">> \o Domain, Elsewhere}

\* The link of a card: host and path.
Uri(host, path) == [host |-> host, path |-> path]
Uris == {Uri(h, 1) : h \in Hosts} \cup {Uri(Domain, 2)}

\* The entries of a feed: a post with a link card
\* (app.bsky.embed.external#view) or with another embed.
Card(uri) == [card |-> TRUE, uri |-> uri]
NoCard == [card |-> FALSE]
FeedEntries == {Card(u) : u \in Uris} \cup {NoCard}
Feeds == UNION {[1..n -> FeedEntries] : n \in 0..MaxFeed}

\* The [[index]] sections of type bluesky and the response they are used
\* on.  limit = 0: the section has no 'limit'; domain = << >>: no 'domain'.
BlueskyConfigs ==
    [feed : Feeds,
     domain : {<< >>, Domain},
     limit : 0..2,
     python : BOOLEAN]

\* str.endswith
EndsWith(s, suffix) ==
    /\ Len(suffix) <= Len(s)
    /\ SubSeq(s, Len(s) - Len(suffix) + 1, Len(s)) = suffix

\* "exact host or any subdomain of it"
HostMatches(host, domain) ==
    host = domain \/ EndsWith(host, <<".">> \o domain)

\* The links of the entries that carry a link card, in feed order.
RECURSIVE CardUris(_)
CardUris(feed) ==
    IF feed = << >> THEN << >>
    ELSE IF Head(feed).card THEN <<Head(feed).uri>> \o CardUris(Tail(feed))
    ELSE CardUris(Tail(feed))

\* "optionally filtered again to a configured domain"
RECURSIVE DomainFilter(_, _)
DomainFilter(uris, domain) ==
    IF uris = << >> THEN << >>
    ELSE IF domain = << >> \/ HostMatches(Head(uris).host, domain)
    THEN <<Head(uris)>> \o DomainFilter(Tail(uris), domain)
    ELSE DomainFilter(Tail(uris), domain)

\* "de-duplicate by URL, preserving first-seen order"
RECURSIVE Dedupe(_, _)
Dedupe(uris, seen) ==
    IF uris = << >> THEN << >>
    ELSE IF Head(uris) \in seen THEN Dedupe(Tail(uris), seen)
    ELSE <<Head(uris)>> \o Dedupe(Tail(uris), seen \cup {Head(uris)})

\* "and capped"
Capped(uris, limit) ==
    IF limit = 0 \/ Len(uris) <= limit THEN uris ELSE SubSeq(uris, 1, limit)

BlueskyArticlesCapFirst(config) ==
    Dedupe(DomainFilter(Capped(CardUris(config.feed), config.limit),
                        config.domain), {})

\* parse_bluesky_feed without a script: the cap comes after the domain
\* filter and the de-duplication.
BlueskyArticles(config) ==
    Capped(Dedupe(DomainFilter(CardUris(config.feed), config.domain), {}),
           config.limit)

InitBluesky ==
    /\ cache_enabled = TRUE
    /\ cache = EmptyCache
    /\ served = << >>
    /\ session = "none"
    /\ last = NoCall
    /\ cfg \in BlueskyConfigs
    /\ pc = "b_call"
    /\ events = << >>
    /\ cover_data = FALSE
    /\ sections_data = << >>
    /\ total_articles = 0
    /\ current_article = 0
    /\ sec = 0
    /\ task = << >>
    /\ results = << >>
    /\ semaphore = 0
    /\ packaged = NotPackaged
    /\ requested = {}

\* What the actions of SpecBluesky leave alone.
BlueskyFrame ==
    UNCHANGED <<cache_enabled, cache, last, served, session, cfg, events,
                cover_data, sections_data, total_articles, current_article,
                sec, task, semaphore, packaged, requested>>

\* The response is parsed: it is no JSON, or it has an 'error' field (both
\* raise), or it is the feed.
BParse ==
    /\ pc = "b_call"
    /\ pc' \in {"b_raised", "b_parsed"}
    /\ results' = results
    /\ BlueskyFrame

\* With a script: the script gets the whole feed and its list is returned
\* as it is (any list of links, or an exception).
BScript ==
    /\ pc = "b_parsed"
    /\ cfg.python
    /\ \/ pc' = "b_raised" /\ results' = results
       \/ /\ pc' = "b_returned"
          /\ results' \in UNION {[1..n -> {Uri(Domain, 1), Uri(Elsewhere, 1)}] :
                                    n \in 0..2}
    /\ BlueskyFrame

\* Without a script: cards, domain, de-duplication, cap.
BSimple ==
    /\ pc = "b_parsed"
    /\ ~cfg.python
    /\ pc' = "b_returned"
    /\ results' = BlueskyArticles(cfg)
    /\ BlueskyFrame

NextBluesky == BParse \/ BScript \/ BSimple

SpecBluesky == InitBluesky /\ [][NextBluesky]_vars


\* ----------------------------- SpecFallback: extract_metadata_fallback
\* The "Use fallback for missing metadata" step of extract_article_content
\* on what a strategy supplied, and extract_metadata_fallback on the
\* document.  last is the result dict.

\* Largest number of fallback locations the document has a match at.
MaxMatches == 2

\* The selectors of title_selectors, author_selectors and date_selectors,
\* by place in their list.
ChainLength(f) ==
    CASE f = "title" -> 4
      [] f = "author" -> 6
      [] f = "date" -> 6
Locations == {loc \in Fields \X (1..6) : loc[2] <= ChainLength(loc[1])}

\* A document: the locations whose xpath matches, the first match being
\* text or only white space.
Documents ==
    UNION {[S -> {"text", "blank"}] :
               S \in {T \in SUBSET Locations : Cardinality(T) <= MaxMatches}}

\* result[0].strip() of the location k of field f.
LocationText(f, k) == <<"loc", f, k>>
\* A value a strategy supplies for field f, and the empty string.
Supplied(f) == <<"given", f>>
EmptyString == <<"">>

\* What a strategy leaves in title, author and date before the fallback.
Strategies ==
    [mode : {"script_str", "merge"},
     parsed : BOOLEAN,                    \* self.document is not None
     document : Documents,
     given : [Fields -> {"none", "empty", "value"}]]

StrategyResult(c, f) ==
    CASE c.given[f] = "none" -> None
      [] c.given[f] = "empty" -> EmptyString
      [] c.given[f] = "value" -> Supplied(f)

\* The loop "for selector in ..._selectors" from place k on: the xpath
\* raises on no document (caught, next selector), finds nothing or white
\* space (next selector), or gives the field its value (break).
RECURSIVE FallbackFrom(_, _, _)
FallbackFrom(c, f, k) ==
    IF k > ChainLength(f) THEN None
    ELSE IF ~c.parsed THEN FallbackFrom(c, f, k + 1)
    ELSE IF <<f, k>> \in DOMAIN c.document /\ c.document[<<f, k>>] = "text"
    THEN LocationText(f, k)
    ELSE FallbackFrom(c, f, k + 1)

\* extract_metadata_fallback(document, url)
ExtractMetadataFallback(c) == [f \in Fields |-> FallbackFrom(c, f, 1)]

\* not result[f]
Falsy(v) == v \in {None, EmptyString}

MergedOverwriting(c, result) ==
    IF \E f \in Fields : Falsy(result[f])
    THEN ExtractMetadataFallback(c)
    ELSE result

\* "Use fallback for missing metadata": if not result['title'] or not
\* result['author'] or not result['date'], each falsy field gets the
\* fallback's.
Merged(c, result) ==
    IF \E f \in Fields : Falsy(result[f])
    THEN [f \in Fields |->
             IF Falsy(result[f]) THEN ExtractMetadataFallback(c)[f]
             ELSE result[f]]
    ELSE result

InitFallback ==
    /\ cache_enabled = TRUE
    /\ cache = EmptyCache
    /\ served = << >>
    /\ session = "none"
    /\ cfg \in {c \in Strategies :
                   c.mode = "script_str" => \A f \in Fields : c.given[f] = "none"}
    /\ last = [f \in Fields |-> StrategyResult(cfg, f)]
    /\ pc = "m_call"
    /\ events = << >>
    /\ cover_data = FALSE
    /\ sections_data = << >>
    /\ total_articles = 0
    /\ current_article = 0
    /\ sec = 0
    /\ task = << >>
    /\ results = << >>
    /\ semaphore = 0
    /\ packaged = NotPackaged
    /\ requested = {}

\* What the actions of SpecFallback leave alone.
FallbackFrame ==
    UNCHANGED <<cache_enabled, cache, served, session, cfg, events, cover_data,
                sections_data, total_articles, current_article, sec, task,
                results, semaphore, packaged, requested>>

\* extract_article_content, lines 283-288: the script returned a str;
\* result.update(fallback).
MUpdate ==
    /\ pc = "m_call"
    /\ cfg.mode = "script_str"
    /\ last' = ExtractMetadataFallback(cfg)
    /\ pc' = "m_returned"
    /\ FallbackFrame

\* extract_article_content, lines 265-273, 298-306 and 361-369.
MMerge ==
    /\ pc = "m_call"
    /\ cfg.mode = "merge"
    /\ last' = Merged(cfg, last)
    /\ pc' = "m_returned"
    /\ FallbackFrame

NextFallback == MUpdate \/ MMerge

SpecFallback == InitFallback /\ [][NextFallback]_vars


\* ------------------- SpecTransform: Extractor.transform_url, simple mode
\* One call of transform_url(url, transform_config) with 'pattern' and
\* 'template'.  Strings are sequences of tokens: a letter, or the text of
\* a placeholder, "{1}" or "{2}".  results is the string returned.

\* Largest number of tokens of a template.
MaxTemplate == 3

Placeholder(i) == CASE i = 1 -> "{1}" [] i = 2 -> "{2}"
Templates == UNION {[1..n -> {"x", "{1}", "{2}"}] : n \in 0..MaxTemplate}

\* match.groups(): per group of the pattern the text it captured, or None
\* for a group that took no part in the match.
GroupTexts == {<<"a">>, <<"{2}">>, None}
GroupLists == UNION {[1..n -> GroupTexts] : n \in 0..2}

\* The URL, the template, and what re.search(pattern, url) finds.
TheUrl == <<"u", "{2}", "a">>
TransformInputs ==
    {c \in [url : {TheUrl}, template : Templates, matched : BOOLEAN,
            groups : GroupLists] :
        ~c.matched => c.groups = << >>}

\* str.replace(old, new), old being one token.
RECURSIVE Replace(_, _, _)
Replace(s, old, new) ==
    IF s = << >> THEN << >>
    ELSE (IF Head(s) = old THEN new ELSE <<Head(s)>>)
         \o Replace(Tail(s), old, new)

\* The loop "for i, group in enumerate(match.groups(), start=1)" from
\* group i on: transformed = transformed.replace('{i}', group), a
\* TypeError when group is None.
Returned(value) == [raised |-> FALSE, value |-> value]
RECURSIVE ReplaceGroups(_, _, _)
ReplaceGroups(transformed, groups, i) ==
    IF i > Len(groups) THEN Returned(transformed)
    ELSE IF groups[i] = None THEN [raised |-> TRUE, value |-> TypeError]
    ELSE ReplaceGroups(Replace(transformed, Placeholder(i), groups[i]),
                       groups, i + 1)

\* transform_url, lines 176-195.
TransformUrlSimple(c) ==
    IF ~c.matched THEN Returned(c.url)
    ELSE ReplaceGroups(c.template, c.groups, 1)

InitTransform ==
    /\ cache_enabled = TRUE
    /\ cache = EmptyCache
    /\ served = << >>
    /\ session = "none"
    /\ last = NoCall
    /\ cfg \in TransformInputs
    /\ pc = "t_call"
    /\ events = << >>
    /\ cover_data = FALSE
    /\ sections_data = << >>
    /\ total_articles = 0
    /\ current_article = 0
    /\ sec = 0
    /\ task = << >>
    /\ results = << >>
    /\ semaphore = 0
    /\ packaged = NotPackaged
    /\ requested = {}

TTransform ==
    /\ pc = "t_call"
    /\ IF TransformUrlSimple(cfg).raised
       THEN pc' = "t_raised" /\ results' = results
       ELSE pc' = "t_returned" /\ results' = TransformUrlSimple(cfg).value
    /\ UNCHANGED <<cache_enabled, cache, last, served, session, cfg, events,
                   cover_data, sections_data, total_articles, current_article,
                   sec, task, semaphore, packaged, requested>>

NextTransform == TTransform

SpecTransform == InitTransform /\ [][NextTransform]_vars


\* --------------------------------------------- Spec: GensiProcessor.process
\* The image the articles embed (one image, shared by the articles of the
\* site).
ImgUrl == [role |-> "image", i |-> 0, j |-> 0]

\* The recipes and arguments a run draws from.
Recipes ==
    [cover : {"none", "image", "page"},  \* no [cover]; a direct image URL; a page
     nidx : 1..MaxIdx,                    \* number of [[index]] sections
     article_config : BOOLEAN,            \* an [article] section exists
     max_parallel : 1..MaxParallel]

\* An article reference as an index resolver yields it: {'url': ...}, or
\* {'url': ..., 'content': ...} when the feed gives the content.
Ref(i, j) == [url |-> ArtUrl(i, j)]
InlineRef(i, j) == [url |-> ArtUrl(i, j), content |-> "inline"]
\* The list of references whose j-th one has content when inline[j].
Refs(i, inline) ==
    [j \in DOMAIN inline |-> IF inline[j] THEN InlineRef(i, j) ELSE Ref(i, j)]
\* The reference lists index i can resolve to, of at most max references.
RefLists(i, max) ==
    {Refs(i, inline) : inline \in UNION {[1..n -> BOOLEAN] : n \in 0..max}}

\* _process_article, line 355: 'content' in article_data and
\* article_data['content']
HasContent(ref) == "content" \in DOMAIN ref

\* The records _process_article returns.  'of' is not a key of the dict:
\* it notes the reference the call was given.  The dict that
\* extract_article_content builds has no 'url' key.
InlineRecord(ref) ==
    [of |-> ref.url, url |-> ref.url, kind |-> "inline",
     content |-> <<"sanitized", ref.content>>]
ExtractedRecord(ref, content) ==
    [of |-> ref.url, kind |-> "extracted", content |-> content]
NoConfigRecord(ref) ==
    [of |-> ref.url, url |-> ref.url, kind |-> "noconfig",
     content |-> "placeholder"]
NoResult == [none |-> TRUE]

Ev(stage, current, total) ==
    [stage |-> stage, current |-> current, total |-> total]
\* GensiProcessor._report_progress, a callback being set
ReportProgress(evs, stage, current, total) ==
    Append(evs, Ev(stage, current, total))

InitRun ==
    /\ cache_enabled \in BOOLEAN
    /\ cache = EmptyCache
    /\ last = NoCall
    /\ served = << >>
    /\ session = "none"
    /\ cfg \in Recipes
    /\ pc = "start"
    /\ events = << >>
    /\ cover_data = FALSE
    /\ sections_data = << >>
    /\ total_articles = 0
    /\ current_article = 0
    /\ sec = 0
    /\ task = << >>
    /\ results = << >>
    /\ semaphore = 0
    /\ packaged = NotPackaged
    /\ requested = {}

\* A fetch / fetch_binary call of the run, on an entered fetcher: what the
\* call did and returned, and its effect on the cache.
RunCall(url, content_type, context, net) ==
    CachedFetch(cache, cache_enabled, url, content_type, context, net).last
RunFetch(url, content_type, context, net) ==
    cache' = CachedFetch(cache, cache_enabled, url, content_type, context, net).cache

RaisedNotReRaised(evs) ==
    /\ events' = ReportProgress(evs, "error", 0, 0)
    /\ pc' = "build"

\* The except clause of process(): report 'error' and re-raise.
Raised(evs) ==
    /\ events' = ReportProgress(evs, "error", 0, 0)
    /\ pc' = "error"

\* process(), lines 86-87: report 'parsing', GensiParser(path).
Parse ==
    /\ pc = "start"
    /\ \/ /\ events' = ReportProgress(events, "parsing", 0, 0)
          /\ pc' = IF cfg.cover # "none" THEN "cover" ELSE "open"
       \/ Raised(ReportProgress(events, "parsing", 0, 0))
    /\ UNCHANGED <<cfg, cover_data, sections_data, total_articles,
                   current_article, sec, task, results, semaphore, packaged,
                   requested>>
    /\ UNCHANGED fetchVars

\* _process_cover, up to the first fetch: report 'cover', then fetch the
\* image (a direct image URL) or the page that holds it.
ProcessCover ==
    /\ pc = "cover"
    /\ LET evs == ReportProgress(events, "cover", 0, 0)
           kind == IF cfg.cover = "image" THEN "binary" ELSE "text"
       IN  \E net \in RunOutcomes(CoverUrl) :
               /\ RunFetch(CoverUrl, kind, "cover", net)
               /\ IF ~RunCall(CoverUrl, kind, "cover", net).ok
                  THEN Raised(evs) /\ UNCHANGED cover_data
                  ELSE /\ events' = evs
                       /\ IF cfg.cover = "image"
                          THEN cover_data' = TRUE /\ pc' = "open"
                          ELSE cover_data' = cover_data /\ pc' = "cover_extract"
    /\ UNCHANGED <<cfg, sections_data, total_articles, current_article, sec,
                   task, results, semaphore, packaged, requested>>
    /\ UNCHANGED <<cache_enabled, last, served, session>>

\* _process_cover, line 194-197: Extractor(...).extract_cover_url: a URL,
\* None (the selector matches nothing), or an exception (no selector, a
\* failing script, a script returning no string).
CoverExtract ==
    /\ pc = "cover_extract"
    /\ \/ pc' = "cover_image" /\ events' = events
       \/ pc' = "open" /\ events' = events
       \/ Raised(events)
    /\ UNCHANGED <<cfg, cover_data, sections_data, total_articles,
                   current_article, sec, task, results, semaphore, packaged,
                   requested>>
    /\ UNCHANGED fetchVars

\* _process_cover, lines 198-213: fetch the image the page names.
CoverImage ==
    /\ pc = "cover_image"
    /\ \E net \in RunOutcomes(CoverImgUrl) :
           /\ RunFetch(CoverImgUrl, "binary", "cover", net)
           /\ IF ~RunCall(CoverImgUrl, "binary", "cover", net).ok
              THEN Raised(events) /\ UNCHANGED cover_data
              ELSE cover_data' = TRUE /\ pc' = "open" /\ events' = events
    /\ UNCHANGED <<cfg, sections_data, total_articles, current_article, sec,
                   task, results, semaphore, packaged, requested>>
    /\ UNCHANGED <<cache_enabled, last, served, session>>

\* process(), line 98: async with CachedFetcher(...) as fetcher
OpenFetcher ==
    /\ pc = "open"
    /\ session' = "open"
    /\ sec' = 1
    /\ pc' = "index"
    /\ UNCHANGED <<cfg, events, cover_data, sections_data, total_articles,
                   current_article, task, results, semaphore, packaged,
                   requested>>
    /\ UNCHANGED <<cache_enabled, cache, last, served>>

RaisedInFetcherSwallowed(evs) ==
    /\ session' = session
    /\ events' = evs
    /\ pc' = "exit"

\* An exception leaves the async with block of process(): the fetcher is
\* exited, then the except clause runs.
RaisedInFetcher(evs) ==
    /\ session' = "closed"
    /\ Raised(evs)

\* index_config.get('name') of the i-th [[index]] of the recipe.
IndexName(i) == <<"name", i>>

AddSectionFront(sd, i, articles) ==
    <<[name |-> IndexName(i), articles |-> articles, index |-> i]>> \o sd

\* process(), lines 110-114: sections_data.append({'name', 'articles',
\* 'index'}).
AddSection(sd, i, articles) ==
    Append(sd, [name |-> IndexName(i), articles |-> articles, index |-> i])

AfterIndexFetchFirst(i, nidx) == [pc |-> "section", sec |-> i]

\* process(), lines 99 and 116-118: the first loop goes on to the next
\* index; after the last one the second loop starts at the first section.
AfterIndex(i, nidx) ==
    IF i < nidx THEN [pc |-> "index", sec |-> i + 1]
    ELSE [pc |-> "section", sec |-> 1]

\* process(), lines 99-114, one turn of the first loop: report 'index',
\* _process_index (fetch with context "index", then extract), append the
\* section.
ProcessIndex ==
    /\ pc = "index"
    /\ LET evs == ReportProgress(events, "index", 0, 0)
       IN  \E net \in RunOutcomes(IndexUrl(sec)) :
               /\ RunFetch(IndexUrl(sec), "text", "index", net)
               /\ \/ /\ ~RunCall(IndexUrl(sec), "text", "index", net).ok
                     /\ RaisedInFetcher(evs)
                     /\ UNCHANGED <<sections_data, total_articles, sec>>
                  \/ /\ RunCall(IndexUrl(sec), "text", "index", net).ok
                     /\ RaisedInFetcher(evs)
                     /\ UNCHANGED <<sections_data, total_articles, sec>>
                  \/ /\ RunCall(IndexUrl(sec), "text", "index", net).ok
                     /\ \E articles \in RefLists(sec, MaxArticles - total_articles) :
                            /\ total_articles' = total_articles + Len(articles)
                            /\ sections_data' =
                                   AddSection(sections_data, sec, articles)
                     /\ events' = evs
                     /\ session' = session
                     /\ sec' = AfterIndex(sec, cfg.nidx).sec
                     /\ pc' = AfterIndex(sec, cfg.nidx).pc
    /\ UNCHANGED <<cfg, cover_data, current_article, task, results, semaphore,
                   packaged, requested>>
    /\ UNCHANGED <<cache_enabled, last, served>>

StartSectionReset ==
    /\ pc = "section"
    /\ LET n == Len(sections_data[sec].articles)
       IN  /\ semaphore' = cfg.max_parallel
           /\ task' = [j \in 1..n |-> "waiting"]
           /\ results' = [j \in 1..n |-> NoResult]
    /\ pc' = "gather"
    /\ current_article' = 0
    /\ UNCHANGED <<cfg, events, cover_data, sections_data, total_articles,
                   sec, packaged, requested>>
    /\ UNCHANGED fetchVars

\* process(), lines 118-141, one turn of the second loop up to the await:
\* a new Semaphore(max_parallel), one task per reference for gather.
StartSection ==
    /\ pc = "section"
    /\ LET n == Len(sections_data[sec].articles)
       IN  /\ semaphore' = cfg.max_parallel
           /\ task' = [j \in 1..n |-> "waiting"]
           /\ results' = [j \in 1..n |-> NoResult]
    /\ pc' = "gather"
    /\ UNCHANGED <<cfg, events, cover_data, sections_data, total_articles,
                   current_article, sec, packaged, requested>>
    /\ UNCHANGED fetchVars

TasksRunOn == pc \in {"gather", "closing", "error"}

\* The tasks of gather run while process() awaits it, and while the
\* fetcher's session is being closed after one of them raised.
TasksRun == pc \in {"gather", "closing"}

\* (a gather that keeps the results in the order the tasks finish)
GatherStoreByCompletion(res, j, rec) ==
    LET free == {k \in DOMAIN res : res[k] = NoResult}
        first == CHOOSE k \in free : \A m \in free : k <= m
    IN  [res EXCEPT ![first] = rec]

\* asyncio.gather: the result of task j goes to position j.
GatherStore(res, j, rec) == [res EXCEPT ![j] = rec]

TaskReturnsKeepsPermit(j, rec) ==
    /\ task' = [task EXCEPT ![j] = "done"]
    /\ results' = GatherStore(results, j, rec)
    /\ semaphore' = semaphore
    /\ pc' = pc

\* Task j returns rec: the semaphore is released, gather keeps the result.
TaskReturns(j, rec) ==
    /\ task' = [task EXCEPT ![j] = "done"]
    /\ results' = GatherStore(results, j, rec)
    /\ semaphore' = semaphore + 1
    /\ pc' = pc

\* Task j raises: the semaphore is released, gather hands the first
\* exception to process() and leaves the other tasks running.
TaskRaises(j) ==
    /\ task' = [task EXCEPT ![j] = "failed"]
    /\ results' = results
    /\ semaphore' = semaphore + 1
    /\ pc' = IF pc = "gather" THEN "closing" ELSE pc

EntersByFetch(ref) == "fetch"

\* _process_article, lines 355-389: a reference with content goes to the
\* sanitizer and the images, any other one to the fetch of its URL.
Enters(ref) == IF HasContent(ref) THEN "inline_images" ELSE "fetch"

SemLockedNever(value) == FALSE

\* asyncio.Semaphore.locked(): no permit is left.
SemLocked(value) == value = 0

\* process_article_with_limit, lines 128-136: the task that waited longest
\* gets the semaphore, counts itself, reports 'article' and enters
\* _process_article: lines 355-366 for a reference with content (up to the
\* await of the images), line 389 otherwise (the fetch is awaited).
TaskStart ==
    \E j \in DOMAIN task :
        /\ TasksRun
        /\ task[j] = "waiting"
        /\ \A k \in 1..(j - 1) : task[k] # "waiting"
        /\ ~SemLocked(semaphore)
        /\ semaphore' = semaphore - 1
        /\ current_article' = current_article + 1
        /\ events' = ReportProgress(events, "article", current_article + 1,
                                    total_articles)
        /\ task' = [task EXCEPT ![j] = Enters(sections_data[sec].articles[j])]
        /\ UNCHANGED <<cfg, pc, cover_data, sections_data, total_articles, sec,
                       results, packaged, requested>>
        /\ UNCHANGED fetchVars

\* _process_article, lines 389-449: the fetch of the article returns or
\* raises; then, in the same step, the extraction: no [article] section
\* (a placeholder record), an exception, no content, or content that goes
\* on to the images.
TaskFetched ==
    \E j \in DOMAIN task :
        /\ TasksRun
        /\ task[j] = "fetch"
        /\ LET ref == sections_data[sec].articles[j]
           IN  \E net \in RunOutcomes(ref.url) :
                   /\ RunFetch(ref.url, "text", "article", net)
                   /\ requested' = requested \cup {ref.url}
                   /\ \/ /\ ~RunCall(ref.url, "text", "article", net).ok
                         /\ TaskRaises(j)
                      \/ /\ RunCall(ref.url, "text", "article", net).ok
                         /\ ~cfg.article_config
                         /\ TaskReturns(j, NoConfigRecord(ref))
                      \/ /\ RunCall(ref.url, "text", "article", net).ok
                         /\ cfg.article_config
                         /\ \/ TaskRaises(j)
                            \/ TaskReturns(j, ExtractedRecord(ref, "none"))
                            \/ /\ task' = [task EXCEPT ![j] = "images"]
                               /\ UNCHANGED <<results, semaphore, pc>>
        /\ UNCHANGED <<cfg, events, cover_data, sections_data, total_articles,
                       current_article, sec, packaged>>
        /\ UNCHANGED <<cache_enabled, last, served, session>>

\* process_article_images returns (download_images swallows the failure
\* of an image), with or without an image having been fetched; then
\* _process_article returns its record.
TaskImages ==
    \E j \in DOMAIN task :
        /\ TasksRun
        /\ task[j] \in {"inline_images", "images"}
        /\ LET ref == sections_data[sec].articles[j]
               rec == IF task[j] = "inline_images" THEN InlineRecord(ref)
                      ELSE ExtractedRecord(ref, "sanitized")
           IN  /\ \/ UNCHANGED cache
                  \/ \E net \in RunOutcomes(ImgUrl) :
                         RunFetch(ImgUrl, "binary", "image", net)
               /\ TaskReturns(j, rec)
        /\ UNCHANGED <<cfg, events, cover_data, sections_data, total_articles,
                       current_article, sec, packaged, requested>>
        /\ UNCHANGED <<cache_enabled, last, served, session>>

\* process(), lines 139-142: gather returns once every task returned; the
\* section gets the records.
GatherDone ==
    /\ pc = "gather"
    /\ \A j \in DOMAIN task : task[j] = "done"
    /\ sections_data' = [sections_data EXCEPT ![sec].articles = results]
    /\ IF sec < cfg.nidx
       THEN sec' = sec + 1 /\ pc' = "section"
       ELSE sec' = sec /\ pc' = "after_pass"
    /\ UNCHANGED <<cfg, events, cover_data, total_articles, current_article,
                   task, results, semaphore, packaged, requested>>
    /\ UNCHANGED fetchVars

\* gather raised in process(): the async with block is left (the session
\* is closed), the except clause reports 'error' and re-raises; the run
\* is over and the event loop stops.
GatherRaised ==
    /\ pc = "closing"
    /\ RaisedInFetcher(events)
    /\ UNCHANGED <<cfg, cover_data, sections_data, total_articles,
                   current_article, sec, task, results, semaphore, packaged,
                   requested>>
    /\ UNCHANGED <<cache_enabled, cache, last, served>>

\* process(), lines 145-146: _generate_auto_cover when there is no [cover]
\* and no cover data; it reports 'cover' and swallows a failure.
AutoCover ==
    /\ pc = "after_pass"
    /\ IF ~(cfg.cover # "none") /\ ~cover_data
       THEN /\ events' = ReportProgress(events, "cover", 0, 0)
            /\ cover_data' \in BOOLEAN
       ELSE UNCHANGED <<events, cover_data>>
    /\ pc' = "exit"
    /\ UNCHANGED <<cfg, sections_data, total_articles, current_article, sec,
                   task, results, semaphore, packaged, requested>>
    /\ UNCHANGED fetchVars

\* process(): the async with block ends, the fetcher is exited.
ExitFetcher ==
    /\ pc = "exit"
    /\ session' = "closed"
    /\ pc' = "build"
    /\ UNCHANGED <<cfg, events, cover_data, sections_data, total_articles,
                   current_article, sec, task, results, semaphore, packaged,
                   requested>>
    /\ UNCHANGED <<cache_enabled, cache, last, served>>

\* process(), lines 149-150: report 'building', call _build_epub.
BuildStart ==
    /\ pc = "build"
    /\ events' = ReportProgress(events, "building", 0, 0)
    /\ packaged' = [called |-> TRUE, sections |-> sections_data]
    /\ pc' = "building"
    /\ UNCHANGED <<cfg, cover_data, sections_data, total_articles,
                   current_article, sec, task, results, semaphore, requested>>
    /\ UNCHANGED fetchVars

\* process(), lines 150-157: _build_epub returns (report 'done') or raises.
BuildEnd ==
    /\ pc = "building"
    /\ \/ /\ events' = ReportProgress(events, "done", 0, 0)
          /\ pc' = "done"
       \/ Raised(events)
    /\ UNCHANGED <<cfg, cover_data, sections_data, total_articles,
                   current_article, sec, task, results, semaphore, packaged,
                   requested>>
    /\ UNCHANGED fetchVars

Next ==
    \/ Parse
    \/ ProcessCover
    \/ CoverExtract
    \/ CoverImage
    \/ OpenFetcher
    \/ ProcessIndex
    \/ StartSection
    \/ TaskStart
    \/ TaskFetched
    \/ TaskImages
    \/ GatherDone
    \/ GatherRaised
    \/ AutoCover
    \/ ExitFetcher
    \/ BuildStart
    \/ BuildEnd

Spec == InitRun /\ [][Next]_vars

\* The run under a fair event loop: a step that can be taken (a fetch that
\* returns or fails, a task that can get the semaphore, the next statement
\* of process()) is taken in the end.
SpecLive == Spec /\ WF_vars(Next)

\* -------------------- SpecCover: GensiProcessor._generate_auto_cover
\* One call of _generate_auto_cover(sections_data) on processed sections.
\* results is the thumbnail_urls list that generate_from_thumbnails gets.

\* Largest number of article records of the sections.
MaxRecords == 8

\* unique_thumbnails[:6]
ThumbnailCap == 6

Thumbnail(k) == <<"thumbnail", k>>
\* An article record, as far as _generate_auto_cover reads it.
Record(thumbnail) == [thumbnail |-> thumbnail]

\* The records of a run, in order: the k-th one has no thumbnail, one of
\* its own, or the one the first article shows too.
RecordLists ==
    UNION {{[k \in 1..n |->
                Record(CASE kinds[k] = "none" -> None
                         [] kinds[k] = "own" -> Thumbnail(k)
                         [] kinds[k] = "shared" -> Thumbnail(1))] :
               kinds \in [1..n -> {"none", "own", "shared"}]} :
           n \in 0..MaxRecords}

\* sections_data: the records in two sections, the first one holding the
\* first s of them.
Sections(records, s) ==
    <<[name |-> IndexName(1), articles |-> SubSeq(records, 1, s), index |-> 1],
      [name |-> IndexName(2), articles |-> SubSeq(records, s + 1, Len(records)),
       index |-> 2]>>

\* lines 225-230: "Collect thumbnails from all articles"
RECURSIVE ArticleThumbnails(_)
ArticleThumbnails(articles) ==
    IF articles = << >> THEN << >>
    ELSE (IF Head(articles).thumbnail # None
          THEN <<Head(articles).thumbnail>> ELSE << >>)
         \o ArticleThumbnails(Tail(articles))
RECURSIVE ThumbnailUrls(_)
ThumbnailUrls(secs) ==
    IF secs = << >> THEN << >>
    ELSE ArticleThumbnails(Head(secs).articles) \o ThumbnailUrls(Tail(secs))

\* lines 233-238: the loop over thumbnail_urls with the set seen.
RECURSIVE Unique(_, _)
Unique(urls, seen) ==
    IF urls = << >> THEN << >>
    ELSE IF Head(urls) \in seen THEN Unique(Tail(urls), seen)
    ELSE <<Head(urls)>> \o Unique(Tail(urls), seen \cup {Head(urls)})

\* s[:n]
Slice(s, n) == IF Len(s) <= n THEN s ELSE SubSeq(s, 1, n)

UniqueThumbnailsNotUnique(secs) == Slice(ThumbnailUrls(secs), ThumbnailCap)

\* lines 225-239: unique_thumbnails
UniqueThumbnails(secs) ==
    Slice(Unique(ThumbnailUrls(secs), {}), ThumbnailCap)

InitCover ==
    /\ cache_enabled = TRUE
    /\ cache = EmptyCache
    /\ served = << >>
    /\ session = "none"
    /\ last = NoCall
    /\ cfg = NoCfg
    /\ pc = "g_call"
    /\ events = << >>
    /\ cover_data = FALSE
    /\ \E records \in RecordLists :
           sections_data \in {Sections(records, s) : s \in {0, Len(records) \div 2}}
    /\ total_articles = 0
    /\ current_article = 0
    /\ sec = 0
    /\ task = << >>
    /\ results = << >>
    /\ semaphore = 0
    /\ packaged = NotPackaged
    /\ requested = {}

\* What the actions of SpecCover leave alone.
CoverFrame ==
    UNCHANGED <<cache_enabled, cache, last, served, session, cfg,
                sections_data, total_articles, current_article, sec, task,
                semaphore, packaged, requested>>

\* lines 222-256: report 'cover', build unique_thumbnails, call
\* generator.generate_from_thumbnails(thumbnail_urls=unique_thumbnails, ...)
GCollect ==
    /\ pc = "g_call"
    /\ events' = ReportProgress(events, "cover", 0, 0)
    /\ results' = UniqueThumbnails(sections_data)
    /\ pc' = "g_generating"
    /\ cover_data' = cover_data
    /\ CoverFrame

\* lines 258-264: the generator returns the cover, or raises (logged, not
\* raised again).
GGenerated ==
    /\ pc = "g_generating"
    /\ cover_data' \in BOOLEAN
    /\ pc' = "g_returned"
    /\ UNCHANGED <<events, results>>
    /\ CoverFrame

NextCover == GCollect \/ GGenerated

SpecCover == InitCover /\ [][NextCover]_vars

\* ================================================================ claims
Has(stage) == \E k \in DOMAIN events : events[k].stage = stage
Count(stage) == Cardinality({k \in DOMAIN events : events[k].stage = stage})
LastStage == IF events = << >> THEN "none" ELSE events[Len(events)].stage
InFlight == {j \in DOMAIN task : task[j] \in {"fetch", "images", "inline_images"}}
Failed == {j \in DOMAIN task : task[j] = "failed"}

\* C1 (SpecFetch): a fetch or fetch_binary call with context "index" on an
\* entered fetcher never reads the cache and never writes it, and it asks
\* the network, whatever the cache holds and whether caching is enabled.
C1_IndexBypassesCache ==
    (last.context = "index" /\ last.entered)
        => (last.net /\ ~last.read /\ ~last.wrote)

\* The second of two index fetches of one URL in a row, caching enabled,
\* the cache holding an entry for the URL: it got its answer from the
\* network.
C1_Witness ==
    /\ cache_enabled
    /\ last.context = "index"
    /\ last.entered
    /\ last.repeat
    /\ last.present
    /\ last.net
    /\ last.ok

\* C2, as claimed: the failure of one article task (its fetch or its
\* extraction raised) does not put the run into the error state.
C2_ArticleFailureKeepsRun == (Failed # {}) => (pc # "error")

\* The cover step failed: the run ended in the error state with a 'cover'
\* event reported and the shared fetcher never opened.
CoverFailed == pc = "error" /\ session = "none" /\ Has("cover")

\* C3, as claimed: a failure while resolving the cover never ends the run
\* in the error state.
C3_CoverFailureKeepsRun == ~CoverFailed

\* An index was announced ('index' event) but gave no section: its
\* resolution failed.
IndexFailed == Count("index") > Len(sections_data)

\* C4: when the resolution of an index fails the run is over: 'error' is
\* the last event and the exception is raised, no article task was
\* started, no article was fetched and _build_epub is not called.
C4_IndexFailureIsFatal ==
    IndexFailed =>
        /\ pc = "error"
        /\ LastStage = "error"
        /\ task = << >>
        /\ current_article = 0
        /\ ~Has("article")
        /\ \A key \in DOMAIN cache : key[1].role \notin {"article", "image"}
        /\ ~packaged.called

\* The second index of a recipe fails after the first one resolved to
\* references.
C4_Witness ==
    /\ IndexFailed
    /\ pc = "error"
    /\ Len(sections_data) = 1
    /\ total_articles > 0

\* C5: a run reports 'done' or 'error', never both and each at most once:
\* 'done' is reported exactly when the run returned, as the last event,
\* right after 'building' and with _build_epub called; 'error' is reported
\* exactly when the run raised, as the last event; a run that raised
\* before 'building' never called _build_epub.
C5_OneOutcome ==
    /\ Count("done") <= 1
    /\ Count("error") <= 1
    /\ ~(Has("done") /\ Has("error"))
    /\ Has("done") <=> pc = "done"
    /\ Has("error") <=> pc = "error"
    /\ Has("done") =>
           /\ LastStage = "done"
           /\ events[Len(events) - 1].stage = "building"
           /\ packaged.called
    /\ Has("error") => LastStage = "error"
    /\ (Has("error") /\ ~Has("building")) => ~packaged.called

\* A run that raised during the article pass: no 'building', nothing
\* packaged.
C5_Witness ==
    /\ pc = "error"
    /\ Has("article")
    /\ ~Has("building")
    /\ ~packaged.called

\* The article pass has begun: a section is being set up, a task exists,
\* an article was counted or reported, or an article or image was cached.
ArticlePassBegun ==
    \/ pc \in {"section", "gather", "closing"}
    \/ task # << >>
    \/ current_article > 0
    \/ Has("article")
    \/ \E key \in DOMAIN cache : key[1].role \in {"article", "image"}

\* C6: the article pass begins only when every index is resolved, and the
\* total of every 'article' event is the number of references of all the
\* indices, which no longer changes.
C6_PassesSequential ==
    ArticlePassBegun =>
        /\ Len(sections_data) = cfg.nidx
        /\ Count("index") = cfg.nidx
        /\ \A k \in DOMAIN events :
               events[k].stage = "article" => events[k].total = total_articles

\* A recipe with two indices, both with references, in its article pass.
C6_Witness ==
    /\ Has("article")
    /\ cfg.nidx = 2
    /\ Len(sections_data) = 2
    /\ Len(sections_data[1].articles) > 0
    /\ Len(sections_data[2].articles) > 0

\* C7: never more than max_parallel article tasks are inside
\* _process_article, and the semaphore holds the permits not in use.
C7_BoundedInFlight ==
    (pc \in {"gather", "closing", "error"} /\ task # << >>) =>
        /\ Cardinality(InFlight) <= cfg.max_parallel
        /\ semaphore = cfg.max_parallel - Cardinality(InFlight)

\* The pool is full and a task waits for a permit.
C7_Witness ==
    /\ pc = "gather"
    /\ Cardinality(InFlight) = cfg.max_parallel
    /\ \E j \in DOMAIN task : task[j] = "waiting"

\* C8: the record gather holds at position j, and the record packaged at
\* position j of a section, is the record of the j-th reference the index
\* of that section resolved to.
C8_RecordsInReferenceOrder ==
    /\ pc \in {"gather", "closing"} =>
           \A j \in DOMAIN results :
               results[j] # NoResult => results[j].of = ArtUrl(sec, j)
    /\ \A s \in DOMAIN packaged.sections :
           \A j \in DOMAIN packaged.sections[s].articles :
               packaged.sections[s].articles[j].of
                   = ArtUrl(packaged.sections[s].index, j)

\* The task of the second reference finished while the task of the first
\* one is still running.
C8_Witness ==
    /\ pc = "gather"
    /\ Len(task) >= 2
    /\ task[1] \in {"fetch", "images", "inline_images"}
    /\ task[2] = "done"
    /\ results[2] # NoResult

\* C9: over the whole run the current of the 'article' events strictly
\* increases.
C9_CurrentIncreases ==
    LET articles == {k \in DOMAIN events : events[k].stage = "article"}
    IN  \A k, l \in articles :
            k < l => events[k].current < events[l].current

\* An 'article' event of the second section, the first section having
\* had articles.
C9_Witness ==
    /\ pc = "gather"
    /\ sec = 2
    /\ Len(sections_data[1].articles) > 0
    /\ InFlight # {}
    /\ Count("article") >= 2

\* The step of the state machine the k-th event belongs to: 1 Parsing,
\* 2 Cover, 3 IndexResolution, 4 ArticleFetch, 5 AutoCover, 6 Build,
\* 7 Done, 8 Error.  A 'cover' event is the explicit cover's when it is the
\* second event.
Step(k) ==
    LET stage == events[k].stage
    IN  CASE stage = "parsing" -> 1
          [] stage = "cover" -> IF k = 2 THEN 2 ELSE 5
          [] stage = "index" -> 3
          [] stage = "article" -> 4
          [] stage = "building" -> 6
          [] stage = "done" -> 7
          [] stage = "error" -> 8

Cacheable == {"cover", "article", "image"}

\* C11 (SpecFetch): caching enabled, a fetch or fetch_binary call with a
\* cacheable context for a URL and kind that an earlier fetch stored (no
\* clear and no expiry of the entry since) makes no network request and
\* gives its caller the content and the resolved URL that the storing
\* fetch gave its caller.
C11_HitRepeatsFirstFetch ==
    (/\ last.entered
     /\ cache_enabled
     /\ last.context \in Cacheable
     /\ last.before # NoEntry)
        => (~last.net /\ last.ok /\ Given(last) = last.before)

\* A hit on a text entry whose body takes two bytes per character and
\* whose request had been redirected, under another context than the call
\* before it.
C11_Witness ==
    /\ last.entered
    /\ cache_enabled
    /\ last.context \in Cacheable
    /\ last.before # NoEntry
    /\ ~last.repeat
    /\ last.kind = "text"
    /\ last.content = Text(<<233>>)
    /\ last.final_url = Moved(last.url)

\* C12 (SpecStore): HttpCache.get(url, kind) after a HttpCache.set(url,
\* payload, resolved, kind) that stored (the latest one for the key, no
\* clear and no expiry of the entry since, the disk readable) returns an
\* entry whose content is payload and whose final_url is resolved.
C12_SetThenGet ==
    (last.op = "get" /\ last.get_ok /\ last.before # NoEntry)
        => /\ last.result # NoEntry
           /\ last.result.content = last.before.content
           /\ last.result.final_url = last.before.final_url

\* A get of a text entry that a direct set stored with a payload that is
\* not UTF-8 and a resolved URL other than the URL.
C12_Witness ==
    /\ last.op = "get"
    /\ last.get_ok
    /\ last.kind = "text"
    /\ last.before = [content |-> Bytes(<<233>>), final_url |-> Moved(last.url)]
    /\ last.result # NoEntry

\* The other kind.
Other(content_type) == IF content_type = "text" THEN "binary" ELSE "text"

\* C13 (SpecStore): the entries of the two kinds for one URL are
\* independent.  A call that stores under one kind (HttpCache.set, or a
\* fetch / fetch_binary) leaves what HttpCache.get returns under the other
\* kind unchanged; and what a get or a cache hit of a fetch returns under
\* a kind is what was last stored under that same kind, never an entry of
\* the other kind.
C13_KindsIndependent ==
    /\ [][(last'.tick # last.tick /\ last'.op \in {"set", "fetch"})
            => CacheGet(cache', last'.url, Other(last'.kind))
                   = CacheGet(cache, last'.url, Other(last'.kind))]_vars
    /\ []((last.op = "get" /\ last.result # NoEntry)
            => /\ last.before # NoEntry
               /\ last.result.content = last.before.content
               /\ last.result.final_url = last.before.final_url)
    /\ []((last.op = "fetch" /\ last.ok /\ ~last.net)
            => /\ last.before # NoEntry
               /\ ToStored(last.kind, last.content) = last.before.content
               /\ last.final_url = last.before.final_url)

\* A text fetch answered from the cache while the same URL has a binary
\* entry with another body and another resolved URL.
C13_Witness ==
    /\ last.op = "fetch"
    /\ last.kind = "text"
    /\ last.ok
    /\ ~last.net
    /\ CacheGet(cache, last.url, "binary") # NoEntry
    /\ CacheGet(cache, last.url, "binary").content
           # ToStored("text", last.content)
    /\ CacheGet(cache, last.url, "binary").final_url # last.final_url

\* What the network answered the latest fetch, as its caller gets it.
Answered ==
    /\ last.ok
    /\ last.content = FetcherBody(last.kind, last.answer.content)
    /\ last.final_url = last.answer.final_url

\* C14 (SpecStore): a failure of the disk store never surfaces from fetch
\* or fetch_binary.  When the cache read fails the call goes to the
\* network and returns its answer (it raises only when the network
\* fails); when the cache write fails the call returns the network's
\* answer all the same and the cache keeps what it held for the key.
C14_StoreFailureSilent ==
    last.op = "fetch" =>
        /\ (last.read /\ ~last.get_ok) =>
               /\ last.net
               /\ last.ok = last.answer.ok
               /\ last.ok => Answered
        /\ (last.wrote /\ ~last.set_ok) =>
               /\ Answered
               /\ \/ CacheGet(cache, last.url, last.kind) = NoEntry
                  \/ Given(CacheGet(cache, last.url, last.kind)) = last.before

\* A fetch whose cache read failed although the key has an entry, and
\* whose cache write failed too: it returned the network's answer.
C14_Witness ==
    /\ last.op = "fetch"
    /\ last.read
    /\ last.present
    /\ ~last.get_ok
    /\ last.wrote
    /\ ~last.set_ok
    /\ last.ok
    /\ CacheGet(cache, last.url, last.kind) # NoEntry

\* The reference an entry of a section is, or is the record of.
RefOf(entry) == IF "of" \in DOMAIN entry THEN entry.of ELSE entry.url

RECURSIVE Records(_)
\* The number of article entries of the sections secs.
Records(secs) ==
    IF secs = << >> THEN 0
    ELSE Len(Head(secs).articles) + Records(Tail(secs))

\* C15: the groups handed to _build_epub are the indices of the recipe in
\* declaration order, each with the name of its index; a group, once its
\* index is resolved, keeps its place, its name and its number of entries,
\* entry j staying the entry of reference j (the gather replaces each
\* reference by its record); every entry packaged is a record; and the
\* number of records, like the number of article tasks started, is the
\* number of references all the indices resolved to.
C15_GroupsInOrder ==
    /\ [][\A s \in DOMAIN sections_data :
             /\ s \in DOMAIN sections_data'
             /\ sections_data'[s].name = sections_data[s].name
             /\ sections_data'[s].index = sections_data[s].index
             /\ DOMAIN sections_data'[s].articles
                    = DOMAIN sections_data[s].articles
             /\ \A j \in DOMAIN sections_data[s].articles :
                    RefOf(sections_data'[s].articles[j])
                        = RefOf(sections_data[s].articles[j])]_vars
    /\ [](packaged.called =>
             /\ packaged.sections = sections_data
             /\ Len(packaged.sections) = cfg.nidx
             /\ \A s \in DOMAIN packaged.sections :
                    /\ packaged.sections[s].index = s
                    /\ packaged.sections[s].name = IndexName(s)
                    /\ \A j \in DOMAIN packaged.sections[s].articles :
                           /\ packaged.sections[s].articles[j] # NoResult
                           /\ "content" \in DOMAIN packaged.sections[s].articles[j]
                           /\ packaged.sections[s].articles[j].of = ArtUrl(s, j)
             /\ Records(packaged.sections) = total_articles
             /\ Count("article") = total_articles
             /\ current_article = total_articles)

\* Two groups packaged, the first of two records and the second of one.
C15_Witness ==
    /\ packaged.called
    /\ Len(packaged.sections) = 2
    /\ Len(packaged.sections[1].articles) = 2
    /\ Len(packaged.sections[2].articles) = 1

\* C16, as claimed: when the article pass is over, the automatic cover is
\* derived (_generate_auto_cover reports 'cover') exactly when the cover
\* step resolved no explicit cover (no cover data is set), whether or not
\* the recipe has a [cover].
C16_AutoCoverIffNoExplicitCover ==
    [][pc = "after_pass" =>
          ((Count("cover")' > Count("cover")) <=> ~cover_data)]_vars

\* C20: a reference that carries content is never fetched with context
\* "article" (neither while it waits in its section nor later), and the
\* record its task returns is the inline record, whose content is the
\* sanitized content of the reference.
C20_InlineNotFetched ==
    /\ \A s \in DOMAIN sections_data :
           \A j \in DOMAIN sections_data[s].articles :
               LET entry == sections_data[s].articles[j]
               IN  /\ ("of" \notin DOMAIN entry /\ HasContent(entry))
                          => entry.url \notin requested
                   /\ ("of" \in DOMAIN entry /\ entry.kind = "inline")
                          => /\ entry.of \notin requested
                             /\ entry.content = <<"sanitized", "inline">>
    /\ pc \in {"gather", "closing"} =>
           \A j \in DOMAIN results :
               (HasContent(sections_data[sec].articles[j])
                    /\ results[j] # NoResult)
                   => results[j] = InlineRecord(sections_data[sec].articles[j])

\* A section with a reference with content and one without: the task of
\* the first returned its record, the second was fetched.
C20_Witness ==
    /\ pc = "gather"
    /\ Len(task) >= 2
    /\ HasContent(sections_data[sec].articles[1])
    /\ ~HasContent(sections_data[sec].articles[2])
    /\ results[1] # NoResult
    /\ results[1].kind = "inline"
    /\ sections_data[sec].articles[2].url \in requested

\* C17, as claimed: when the index has a url_transform, whatever its
\* type, the URL of every article _process_index returns is the
\* transform of the URL the extraction found (the template's result when
\* the pattern matches, the URL itself when it does not, the script's
\* result for a python transform).
C17_TransformApplied ==
    (pc = "ix_returned" /\ cfg.url_transform # "none") =>
        \A j \in DOMAIN results :
            results[j].url
                = TransformUrl(results[j].found, cfg.url_transform, "str")

\* C18, as claimed: whenever the [article] section has a script and a
\* script runner is given, the result extract_article_content returns is
\* the script's, also for a JSON response with a json_path dict.
C18_ScriptFirst ==
    (pc = "x_returned" /\ cfg.python /\ cfg.executor)
        => last.strategy = "script"

\* C19, as claimed: in simple (selector) mode, when the remove list names
\* the block inside the content element that holds the nodes of the
\* metadata selectors, each field with a selector is the text of its node
\* and the block is not in the serialized content.
C19_MetadataBeforeRemoval ==
    (/\ pc = "x_returned"
     /\ last.strategy = "selector"
     /\ cfg.remove
     /\ cfg.lead_at = "in_content")
        => /\ \A f \in cfg.selectors : last.result[f] = NodeText(f)
           /\ "lead" \notin last.result.content.nodes

\* The links of the feed's cards that the configured domain lets through,
\* and the place a link is first seen at.
Matching ==
    {u \in Uris : \E k \in DOMAIN cfg.feed :
        /\ cfg.feed[k] = Card(u)
        /\ (cfg.domain = << >> \/ HostMatches(u.host, cfg.domain))}
FirstSeen(u) ==
    CHOOSE k \in DOMAIN cfg.feed :
        /\ cfg.feed[k] = Card(u)
        /\ \A m \in 1..(k - 1) : cfg.feed[m] # Card(u)

\* C21 (SpecBluesky): without a script the list parse_bluesky_feed returns
\* has no URL twice, holds only links whose host is the configured domain
\* or ends with "." + domain, is in first-seen feed order, and is the
\* first `limit` of the distinct matching links: the cap is applied after
\* the filter and the de-duplication.
C21_FirstDistinctMatching ==
    (pc = "b_returned" /\ ~cfg.python) =>
        /\ \A a, b \in DOMAIN results : a # b => results[a] # results[b]
        /\ \A a \in DOMAIN results : results[a] \in Matching
        /\ \A a, b \in DOMAIN results :
               a < b => FirstSeen(results[a]) < FirstSeen(results[b])
        /\ Len(results) = IF cfg.limit = 0 \/ Cardinality(Matching) < cfg.limit
                          THEN Cardinality(Matching) ELSE cfg.limit
        /\ \A u \in Matching : \A a \in DOMAIN results :
               FirstSeen(u) < FirstSeen(results[a])
                   => \E b \in DOMAIN results : results[b] = u

\* A capped result whose second link is the feed's last entry, behind a
\* duplicate of the first one or a link of another host.
C21_Witness ==
    /\ pc = "b_returned"
    /\ ~cfg.python
    /\ cfg.domain = Domain
    /\ cfg.limit = 2
    /\ Len(cfg.feed) = 3
    /\ Len(results) = 2
    /\ cfg.feed[3] = Card(results[2])
    /\ cfg.feed[2] \in {cfg.feed[1], Card(Uri(<<"not">> \o Domain, 1))}

\* C22, as claimed: when an article task of a group has failed, every
\* sibling that was started runs to completion and its record is in the
\* group (section['articles']) when the run ends.
C22_SiblingsContribute ==
    (pc = "error" /\ Failed # {}) =>
        \A j \in DOMAIN task :
            task[j] \notin {"waiting", "failed"} =>
                /\ task[j] = "done"
                /\ sections_data[sec].articles[j] = results[j]

\* C28, as claimed: the fetcher's session is closed only when no article
\* task is in flight (in its article fetch or its image fetches), also
\* after an article task has failed.
C28_ClosedAfterTasks == session = "closed" => InFlight = {}

\* C23 (SpecFetch): with cache_enabled = False every call of fetch and
\* fetch_binary on an entered fetcher, in any context, goes to the network
\* without reading or writing the cache, and the cache stays as it was.
C23_DisabledPassThrough ==
    (~cache_enabled /\ last.entered) =>
        /\ ~last.read
        /\ ~last.wrote
        /\ last.net
        /\ cache = EmptyCache
        /\ served = << >>

\* The same article is fetched twice in a row with the cache disabled, and
\* the second call is answered by the network.
C23_Witness ==
    /\ ~cache_enabled
    /\ last.entered
    /\ last.repeat
    /\ last.context = "article"
    /\ last.net
    /\ last.ok

\* C29 (SpecFetch): a call of fetch or fetch_binary whose network request
\* fails raises and leaves the cache as it was, under both kinds; after a
\* failing call that looked in the cache, the URL has no entry of the
\* call's kind, so the next fetch of it goes to the network again.
C29_FailureLeavesCache ==
    /\ [][(last' # last /\ last'.net /\ ~last'.ok) => cache' = cache]_vars
    /\ [](  (last.entered /\ last.read /\ last.net /\ ~last.ok)
         => MakeCacheKey(last.url, last.kind) \notin DOMAIN cache)

\* A fetch that fails a second time in a row, an entry of another key
\* being in the cache.
C29_Witness ==
    /\ last.entered
    /\ last.read
    /\ last.net
    /\ ~last.ok
    /\ last.repeat
    /\ cache # EmptyCache

\* The locations of field f at which the document has text.
TextAt(f) ==
    {k \in 1..ChainLength(f) :
        /\ cfg.parsed
        /\ <<f, k>> \in DOMAIN cfg.document
        /\ cfg.document[<<f, k>>] = "text"}

\* C24 (SpecFallback): after the fallback step each of title, author and
\* date, on its own, is the value the strategy supplied when it supplied
\* one (not None, not empty); else the text of the first location of its list that has text;
\* else None (also when there is no document); nothing raises.
C24_FallbackPerField ==
    (pc = "m_returned") =>
        \A f \in Fields :
            IF cfg.given[f] = "value" THEN last[f] = Supplied(f)
            ELSE IF TextAt(f) = {} THEN last[f] = None
            ELSE /\ last[f][1] = "loc"
                 /\ last[f][3] \in TextAt(f)
                 /\ \A k \in TextAt(f) : last[f][3] <= k

\* One field supplied and kept, one field taken from the second of two
\* locations (the first one being blank), one field without any match.
C24_Witness ==
    /\ pc = "m_returned"
    /\ \E f, g, h \in Fields :
           /\ cfg.given[f] = "value" /\ last[f] = Supplied(f)
           /\ g # f /\ cfg.given[g] # "value"
           /\ \E k \in TextAt(g) : \E m \in 1..(k - 1) :
                  /\ <<g, m>> \in DOMAIN cfg.document
                  /\ last[g] = LocationText(g, k)
           /\ h \notin {f, g} /\ last[h] = None

\* The template with every placeholder of a group of the match replaced,
\* all at once, by the text of the group.
RECURSIVE Substituted(_, _)
Substituted(template, groups) ==
    IF template = << >> THEN << >>
    ELSE (IF \E i \in DOMAIN groups : Head(template) = Placeholder(i)
          THEN groups[CHOOSE i \in DOMAIN groups :
                          Head(template) = Placeholder(i)]
          ELSE <<Head(template)>>)
         \o Substituted(Tail(template), groups)

\* C25, as claimed: transform_url with pattern and template returns the
\* URL as it is when the pattern does not match, and otherwise returns
\* the template with each placeholder {i} replaced by the text of the
\* i-th group of the match.
C25_TemplateSubstituted ==
    (pc # "t_call") =>
        /\ pc = "t_returned"
        /\ results = IF cfg.matched THEN Substituted(cfg.template, cfg.groups)
                     ELSE cfg.url

\* The places <<section, article>> of the records that show thumbnail t,
\* and the order of the places.
Shows(t) ==
    {p \in (DOMAIN sections_data) \X (1..MaxRecords) :
        /\ p[2] \in DOMAIN sections_data[p[1]].articles
        /\ sections_data[p[1]].articles[p[2]].thumbnail = t}
Earlier(p, q) == p[1] < q[1] \/ (p[1] = q[1] /\ p[2] < q[2])
FirstShown(t) == CHOOSE p \in Shows(t) : \A q \in Shows(t) : q = p \/ Earlier(p, q)
Shown == {t \in {Thumbnail(k) : k \in 1..MaxRecords} : Shows(t) # {}}

\* C26 (SpecCover): the thumbnail list handed to generate_from_thumbnails
\* holds no URL twice, only thumbnails of article records (one record one
\* thumbnail), in the order of their first occurrence over sections and
\* articles, and at most 6 of them: the first 6 distinct ones.
C26_ThumbnailList ==
    (pc # "g_call") =>
        /\ \A a, b \in DOMAIN results : a # b => results[a] # results[b]
        /\ \A a \in DOMAIN results : results[a] \in Shown
        /\ \A a, b \in DOMAIN results :
               a < b => Earlier(FirstShown(results[a]), FirstShown(results[b]))
        /\ Len(results) <= ThumbnailCap
        /\ Len(results) = IF Cardinality(Shown) < ThumbnailCap
                          THEN Cardinality(Shown) ELSE ThumbnailCap
        /\ \A t \in Shown : \A a \in DOMAIN results :
               Earlier(FirstShown(t), FirstShown(results[a]))
                   => \E b \in DOMAIN results : results[b] = t

\* Seven distinct thumbnails over two sections, one of them shown twice:
\* six are handed on.
C26_Witness ==
    /\ pc = "g_returned"
    /\ Cardinality(Shown) > ThumbnailCap
    /\ Len(results) = ThumbnailCap
    /\ \E t \in Shown : Cardinality(Shows(t)) > 1
    /\ sections_data[1].articles # << >>
    /\ sections_data[2].articles # << >>

\* The number of references (or records) of the sections.
RECURSIVE Resolved(_)
Resolved(secs) ==
    IF secs = << >> THEN 0
    ELSE Len(Head(secs).articles) + Resolved(Tail(secs))
ArticleEvents == {k \in DOMAIN events : events[k].stage = "article"}

\* C27 (Spec): every 'article' event has 1 <= current <= total, its total
\* being the number of references the indices resolved to, the same in
\* every event; when 'done' is reported the currents of the 'article'
\* events are 1..total, each one once, however the tasks interleave.
C27_CurrentWithinTotal ==
    /\ \A k \in ArticleEvents :
           /\ 1 <= events[k].current
           /\ events[k].current <= events[k].total
           /\ events[k].total = total_articles
           /\ events[k].total = Resolved(sections_data)
    /\ pc = "done" =>
           /\ {events[k].current : k \in ArticleEvents} = 1..total_articles
           /\ Cardinality(ArticleEvents) = total_articles

\* A finished run of two sections with articles and two tasks at a time.
C27_Witness ==
    /\ pc = "done"
    /\ total_articles = MaxArticles
    /\ cfg.max_parallel > 1
    /\ Len(sections_data) > 1
    /\ \A i \in DOMAIN sections_data : sections_data[i].articles # << >>

\* C30 (SpecLive): every run of process() with max_parallel >= 1 whose
\* fetches all return or fail reaches 'done' or 'error'; while a group is
\* gathered the permits out are those of the articles in flight, so a task
\* that ends, by return or by exception, has given its permit back.
C30_RunEnds ==
    /\ <>(pc \in {"done", "error"})
    /\ [](pc \in {"gather", "closing"}
            => semaphore + Cardinality(InFlight) = cfg.max_parallel)

\* A finished run in which the articles of a section went through one
\* permit one after the other.
C30_Witness ==
    /\ pc = "done"
    /\ cfg.max_parallel = 1
    /\ \E i \in DOMAIN sections_data : Len(sections_data[i].articles) > 1
    /\ semaphore = cfg.max_parallel

====
